---------------------------- MODULE Spec2Model ----------------------------
(***************************************************************************)
(* Model of catalog_SFLibs.py: build_scad_tree, a sorted recursive walk    *)
(* of a directory that keeps every subdirectory and every entry whose name *)
(* ends in ".scad", and the __main__ block that serialises the walk's      *)
(* result with json.dump(indent=2) into <root>/catalog.json.               *)
(*                                                                         *)
(* Strings are sequences of code points.  A path is the sequence of the    *)
(* names below the root ('public/SFLibs' is the empty path).  A Python     *)
(* value is a record [py, v]: a str carries its code points, a list its    *)
(* elements.                                                               *)
(***************************************************************************)
EXTENDS Integers, Sequences, FiniteSets, TLC

VARIABLES
  fs,       \* the file system below the root
  made,     \* entries the environment has created
  pc,       \* where each process is: idle, enter (a call is about to list its
            \* path), loop, open, write, done, failed
  arg,      \* the path of the call being entered
  stack,    \* the frames of build_scad_tree, innermost last
  tree,     \* tree = build_scad_tree(root)
  doc,      \* the text json.dump produces
  pos,      \* the offset of the file object f
  runs,     \* runs started
  err,      \* the call that raised in this run: none, listdir, open
  listed,   \* history: the paths listed in this run, in order
  before,   \* history: the file system when this run started
  outs,     \* history: catalog.json as each complete run left it
  overlap,  \* history: a run opened catalog.json while another had it open
  last      \* history: the process that closed catalog.json last

vars == <<fs, made, pc, arg, stack, tree, doc, pos, runs, err, listed, before, outs, overlap, last>>

(***************************************************************************)
(* Bounds of the model.                                                    *)
(***************************************************************************)
\* entries the environment creates under the root before the script is started
MaxNodes == 3
\* entries the environment creates under the root around two concurrent runs
MaxNodesConc == 2
\* runs of the script, one after the other
MaxRuns == 2
\* symbolic links the operating system follows while resolving one path
\* (40 on Linux), scaled down
SymloopMax == 2
\* bytes the file object hands to one write(2) (io.DEFAULT_BUFFER_SIZE), scaled down
BufSize == 32

(***************************************************************************)
(* Names.                                                                  *)
(***************************************************************************)
\* 'A', 'a.scad', 'B.scad', 'model.SCAD', 'loop', 'catalog.json'
nA == <<65>>
n_a_scad == <<97, 46, 115, 99, 97, 100>>
n_B_scad == <<66, 46, 115, 99, 97, 100>>
n_model_SCAD == <<109, 111, 100, 101, 108, 46, 83, 67, 65, 68>>
n_loop == <<108, 111, 111, 112>>
n_catalog_json == <<99, 97, 116, 97, 108, 111, 103, 46, 106, 115, 111, 110>>

\* '.scad'
ScadExt == <<46, 115, 99, 97, 100>>

\* what the environment may create: a name and the kind of entry it names
Creatable ==
  { <<nA, "dir">>, <<n_B_scad, "dir">>,
    <<n_a_scad, "file">>, <<n_a_scad, "fifo">>,
    <<n_model_SCAD, "file">>,
    <<n_catalog_json, "file">>,
    <<n_loop, "link">> }

\* what it creates around two concurrent runs, whose interleavings multiply
CreatableConc ==
  { <<nA, "dir">>, <<n_a_scad, "file">>, <<n_catalog_json, "file">> }

\* content of a catalog.json left by an earlier, unrelated writer: "xxx"
Stale == <<120, 120, 120>>

Procs == {1, 2}

\* root = 'public/SFLibs'
root == <<>>

\* output_path = os.path.join(root, 'catalog.json')
output_path == <<n_catalog_json>>

(***************************************************************************)
(* The file system: fs maps the real path of every entry below the root to *)
(* [kind, data].  kind is "dir", "file" (regular), "fifo" (neither regular *)
(* nor a directory) or "link" (a symbolic link to ".", the directory that  *)
(* holds it).                                                              *)
(***************************************************************************)
Parent(q) == SubSeq(q, 1, Len(q) - 1)

Base(q) == q[Len(q)]

\* full_path = path: the call descends into the directory it is listing
JoinSelf(path, item) == path

\* full_path = item: the containing directory is dropped
JoinBare(path, item) == <<item>>

\* os.path.join(path, item)
Join(path, item) == Append(path, item)

\* Resolution of path as stat(2) does it, following symbolic links:
\* [ok, real], ok = FALSE for ENOENT, ENOTDIR and ELOOP.
RECURSIVE ResolveFrom(_, _, _, _)
ResolveFrom(real, path, k, followed) ==
  IF k > Len(path) THEN [ok |-> TRUE, real |-> real]
  ELSE LET q == Append(real, path[k]) IN
       IF q \notin DOMAIN fs THEN [ok |-> FALSE, real |-> q]
       ELSE IF fs[q].kind = "link"
            THEN IF followed + 1 > SymloopMax
                 THEN [ok |-> FALSE, real |-> q]
                 ELSE ResolveFrom(real, path, k + 1, followed + 1)
            ELSE IF k < Len(path) /\ fs[q].kind # "dir"
                 THEN [ok |-> FALSE, real |-> q]
                 ELSE ResolveFrom(q, path, k + 1, followed)

Resolve(path) == ResolveFrom(root, path, 1, 0)

\* os.path.isdir(full_path): False when stat fails
IsDir(path) ==
  LET r == Resolve(path) IN
  r.ok /\ (r.real = root \/ fs[r.real].kind = "dir")

\* the set of names os.listdir(path) returns (in no particular order)
ListDir(path) ==
  LET r == Resolve(path) IN
  { Base(q) : q \in { x \in DOMAIN fs : Len(x) > 0 /\ Parent(x) = r.real } }

(***************************************************************************)
(* str comparison and sorted().                                            *)
(***************************************************************************)
Min(a, b) == IF a < b THEN a ELSE b

\* a < b for str: by code point, a proper prefix first
StrLess(a, b) ==
  \E k \in 1..(Min(Len(a), Len(b)) + 1) :
     /\ \A j \in 1..(k - 1) : a[j] = b[j]
     /\ \/ k > Len(a) /\ k <= Len(b)
        \/ k <= Len(a) /\ k <= Len(b) /\ a[k] < b[k]

Lower(c) == IF c >= 65 /\ c <= 90 THEN c + 32 ELSE c

LowerStr(a) == [k \in 1..Len(a) |-> Lower(a[k])]

\* sorted(names, key=str.lower)
RECURSIVE SortedIgnoreCase(_)
SortedIgnoreCase(S) ==
  IF S = {} THEN <<>>
  ELSE LET m == CHOOSE x \in S : \A y \in S \ {x} : StrLess(LowerStr(x), LowerStr(y))
       IN <<m>> \o SortedIgnoreCase(S \ {m})

\* sorted(names)
RECURSIVE Sorted(_)
Sorted(S) ==
  IF S = {} THEN <<>>
  ELSE LET m == CHOOSE x \in S : \A y \in S \ {x} : StrLess(x, y)
       IN <<m>> \o Sorted(S \ {m})

\* item.lower().endswith(suffix)
EndsWithNoCase(item, suffix) ==
  /\ Len(item) >= Len(suffix)
  /\ LowerStr(SubSeq(item, Len(item) - Len(suffix) + 1, Len(item))) = suffix

\* item.endswith(suffix)
EndsWith(item, suffix) ==
  /\ Len(item) >= Len(suffix)
  /\ SubSeq(item, Len(item) - Len(suffix) + 1, Len(item)) = suffix

(***************************************************************************)
(* Python values and json.dump(tree, f, indent=2).                         *)
(***************************************************************************)
Str(s) == [py |-> "str", v |-> s]

List(s) == [py |-> "list", v |-> s]

\* indent=2
Indent == 2

Spaces(n) == [i \in 1..n |-> 32]

\* newline and the indentation of a nesting level
NewLine(level) == <<10>> \o Spaces(Indent * level)

HexDigit(d) == IF d < 10 THEN 48 + d ELSE 87 + d

\* one character of a str in a JSON string (ensure_ascii=True), for the
\* Basic Multilingual Plane
EscapeChar(c) ==
  CASE c = 34 -> <<92, 34>>
    [] c = 92 -> <<92, 92>>
    [] c = 10 -> <<92, 110>>
    [] c = 13 -> <<92, 114>>
    [] c = 9 -> <<92, 116>>
    [] c = 8 -> <<92, 98>>
    [] c = 12 -> <<92, 102>>
    [] OTHER -> IF c >= 32 /\ c <= 126 THEN <<c>>
                ELSE <<92, 117, HexDigit(c \div 4096), HexDigit((c \div 256) % 16),
                       HexDigit((c \div 16) % 16), HexDigit(c % 16)>>

RECURSIVE Escape(_)
Escape(s) == IF s = <<>> THEN <<>> ELSE EscapeChar(Head(s)) \o Escape(Tail(s))

RECURSIVE Dumps(_, _)
Dumps(value, level) ==
  IF value.py = "str" THEN <<34>> \o Escape(value.v) \o <<34>>
  ELSE IF value.v = <<>> THEN <<91, 93>>
  ELSE LET RECURSIVE Items(_)
           Items(k) ==
             IF k > Len(value.v) THEN <<>>
             ELSE NewLine(level + 1) \o Dumps(value.v[k], level + 1)
                  \o (IF k < Len(value.v) THEN <<44>> ELSE <<>>) \o Items(k + 1)
       IN <<91>> \o Items(1) \o NewLine(level) \o <<93>>


(***************************************************************************)
(* build_scad_tree, one step of the interpreter at a time.  A frame of the *)
(* call stack holds the call's path, the sorted listing, the index of the  *)
(* loop's current item and the entries appended so far.                    *)
(***************************************************************************)
\* a directory that holds nothing is passed over
ClassifyPruneEmpty(path, item) ==
  IF IsDir(Join(path, item)) /\ ListDir(Join(path, item)) # {} THEN "recurse"
  ELSE IF EndsWith(item, ScadExt) THEN "append"
  ELSE "skip"

\* no test of the suffix: every entry that is no directory is appended
ClassifyKeepAll(path, item) ==
  IF IsDir(Join(path, item)) THEN "recurse" ELSE "append"

\* what the loop body does with an item: lines 8 to 13
Classify(path, item) ==
  IF IsDir(Join(path, item)) THEN "recurse"
  ELSE IF EndsWith(item, ScadExt) THEN "append"
  ELSE "skip"

\* [item, build_scad_tree(full_path)]
DirEntry(item, children) == List(<<Str(item), List(children)>>)

\* the value a call returns when no listing fails
RECURSIVE build_scad_tree(_)
build_scad_tree(path) ==
  LET items == Sorted(ListDir(path))
      RECURSIVE Loop(_)
      Loop(k) ==
        IF k > Len(items) THEN <<>>
        ELSE LET item == items[k]
                 what == Classify(path, item)
             IN (CASE what = "recurse" ->
                        <<DirEntry(item, build_scad_tree(Join(path, item)))>>
                   [] what = "append" -> <<Str(item)>>
                   [] OTHER -> <<>>)
                \o Loop(k + 1)
  IN Loop(1)

\* the frame a call starts with: entries = [], and the iterable of the for loop
NewFrame(path) ==
  [path |-> path, items |-> Sorted(ListDir(path)), i |-> 1, entries |-> <<>>]

Top(p) == stack[p][Len(stack[p])]

SetTop(p, f) == [stack[p] EXCEPT ![Len(stack[p])] = f]

\* open(output_path, 'r+'): the old content stays
OpenedKeep(data) == data

\* the file's content right after open(output_path, 'w')
Opened(data) == <<>>

\* a write(2) under O_APPEND: at the end of the file, whatever the offset
WriteAtEnd(data, off, bytes) == data \o bytes

\* data after a write(2) of bytes at offset off (a gap reads as NUL bytes)
WriteAt(data, off, bytes) ==
  LET n == IF Len(data) > off + Len(bytes) THEN Len(data) ELSE off + Len(bytes) IN
  [k \in 1..n |->
     IF k > off /\ k <= off + Len(bytes) THEN bytes[k - off]
     ELSE IF k <= Len(data) THEN data[k]
     ELSE 0]

\* the script is started: root = 'public/SFLibs', then the call of line 18
Start(p, limit) ==
  /\ pc[p] \in {"idle", "done", "failed"}
  /\ runs[p] < limit
  /\ runs' = [runs EXCEPT ![p] = @ + 1]
  /\ pc' = [pc EXCEPT ![p] = "enter"]
  /\ arg' = [arg EXCEPT ![p] = root]
  /\ stack' = [stack EXCEPT ![p] = <<>>]
  /\ tree' = [tree EXCEPT ![p] = <<>>]
  /\ doc' = [doc EXCEPT ![p] = <<>>]
  /\ pos' = [pos EXCEPT ![p] = 0]
  /\ err' = [err EXCEPT ![p] = "none"]
  /\ listed' = [listed EXCEPT ![p] = <<>>]
  /\ before' = [before EXCEPT ![p] = fs]
  /\ UNCHANGED <<fs, made, outs, overlap, last>>

\* line 5 and the listing of line 6
Enter(p) ==
  /\ pc[p] = "enter"
  /\ stack' = [stack EXCEPT ![p] = Append(@, NewFrame(arg[p]))]
  /\ listed' = [listed EXCEPT ![p] = Append(@, arg[p])]
  /\ pc' = [pc EXCEPT ![p] = "loop"]
  /\ UNCHANGED <<fs, made, arg, tree, doc, pos, runs, err, before, outs, overlap, last>>

\* the error is caught and the directory taken for an empty one
ListErrorSkipped(p) ==
  /\ pc' = [pc EXCEPT ![p] = "loop"]
  /\ err' = [err EXCEPT ![p] = "listdir"]
  /\ stack' = [stack EXCEPT ![p] =
                 Append(@, [path |-> arg[p], items |-> <<>>, i |-> 1, entries |-> <<>>])]
  /\ UNCHANGED <<fs, made, arg, tree, doc, pos, runs, listed, before, outs, overlap, last>>

\* os.listdir raises (permission denied, the path was removed, an I/O
\* error): nothing catches it, the interpreter unwinds every frame and exits
ListError(p) ==
  /\ pc' = [pc EXCEPT ![p] = "failed"]
  /\ err' = [err EXCEPT ![p] = "listdir"]
  /\ stack' = [stack EXCEPT ![p] = <<>>]
  /\ UNCHANGED <<fs, made, arg, tree, doc, pos, runs, listed, before, outs, overlap, last>>

EnterFail(p) ==
  /\ pc[p] = "enter"
  /\ ListError(p)

\* one iteration of the for loop, up to the recursive call
Iter(p) ==
  /\ pc[p] = "loop"
  /\ Top(p).i <= Len(Top(p).items)
  /\ LET f == Top(p)
         item == f.items[f.i]
         what == Classify(f.path, item)
     IN \/ /\ what = "recurse"
           /\ arg' = [arg EXCEPT ![p] = Join(f.path, item)]
           /\ pc' = [pc EXCEPT ![p] = "enter"]
           /\ UNCHANGED stack
        \/ /\ what = "append"
           /\ stack' = [stack EXCEPT ![p] =
                          SetTop(p, [f EXCEPT !.entries = Append(@, Str(item)),
                                              !.i = @ + 1])]
           /\ UNCHANGED <<arg, pc>>
        \/ /\ what = "skip"
           /\ stack' = [stack EXCEPT ![p] = SetTop(p, [f EXCEPT !.i = @ + 1])]
           /\ UNCHANGED <<arg, pc>>
  /\ UNCHANGED <<fs, made, tree, doc, pos, runs, err, listed, before, outs, overlap, last>>

\* return entries: to the caller's append of line 10, or to line 18
Return(p) ==
  /\ pc[p] = "loop"
  /\ Top(p).i > Len(Top(p).items)
  /\ IF Len(stack[p]) > 1
     THEN LET n == Len(stack[p])
              caller == stack[p][n - 1]
              item == caller.items[caller.i]
          IN /\ stack' = [stack EXCEPT ![p] =
                   Append(SubSeq(@, 1, n - 2),
                          [caller EXCEPT
                             !.entries = Append(@, DirEntry(item, Top(p).entries)),
                             !.i = @ + 1])]
             /\ UNCHANGED <<tree, pc>>
     ELSE /\ tree' = [tree EXCEPT ![p] = Top(p).entries]
          /\ stack' = [stack EXCEPT ![p] = <<>>]
          /\ pc' = [pc EXCEPT ![p] = "open"]
  /\ UNCHANGED <<fs, made, arg, doc, pos, runs, err, listed, before, outs, overlap, last>>

\* open(output_path, 'w') creates or truncates the file; json.dump then
\* fills the file object's buffer
Open(p) ==
  /\ pc[p] = "open"
  /\ fs' = IF output_path \in DOMAIN fs
           THEN [fs EXCEPT ![output_path].data = Opened(@)]
           ELSE fs @@ (output_path :> [kind |-> "file", data |-> <<>>])
  /\ doc' = [doc EXCEPT ![p] = Dumps(List(tree[p]), 0)]
  /\ pos' = [pos EXCEPT ![p] = 0]
  /\ overlap' = (overlap \/ \E q \in Procs \ {p} : pc[q] = "write")
  /\ pc' = [pc EXCEPT ![p] = "write"]
  /\ UNCHANGED <<made, arg, stack, tree, runs, err, listed, before, outs, last>>

\* open raises: the output location is not writable
OpenFail(p) ==
  /\ pc[p] = "open"
  /\ pc' = [pc EXCEPT ![p] = "failed"]
  /\ err' = [err EXCEPT ![p] = "open"]
  /\ UNCHANGED <<fs, made, arg, stack, tree, doc, pos, runs, listed, before, outs, overlap, last>>

\* the buffer is full: one write(2) at the file object's own offset
Write(p) ==
  /\ pc[p] = "write"
  /\ Len(doc[p]) - pos[p] > BufSize
  /\ fs' = [fs EXCEPT ![output_path].data =
              WriteAt(@, pos[p], SubSeq(doc[p], pos[p] + 1, pos[p] + BufSize))]
  /\ pos' = [pos EXCEPT ![p] = @ + BufSize]
  /\ UNCHANGED <<made, pc, arg, stack, tree, doc, runs, err, listed, before, outs, overlap, last>>

\* leaving the with block: the rest of the buffer is written, the file closed
Close(p) ==
  /\ pc[p] = "write"
  /\ Len(doc[p]) - pos[p] <= BufSize
  /\ fs' = [fs EXCEPT ![output_path].data =
              WriteAt(@, pos[p], SubSeq(doc[p], pos[p] + 1, Len(doc[p])))]
  /\ pos' = [pos EXCEPT ![p] = Len(doc[p])]
  /\ pc' = [pc EXCEPT ![p] = "done"]
  /\ outs' = [outs EXCEPT ![p] = Append(@, fs'[output_path].data)]
  /\ last' = p
  /\ UNCHANGED <<made, arg, stack, tree, doc, runs, err, listed, before, overlap>>

(***************************************************************************)
(* The environment: somebody adds an entry to the library.                 *)
(***************************************************************************)
Create(parent, c, limit) ==
  /\ parent = root \/ (parent \in DOMAIN fs /\ fs[parent].kind = "dir")
  /\ Append(parent, c[1]) \notin DOMAIN fs
  /\ made < limit
  /\ made' = made + 1
  /\ fs' = fs @@ (Append(parent, c[1]) :>
                    [kind |-> c[2],
                     data |-> IF c[1] = n_catalog_json THEN Stale ELSE <<>>])
  /\ UNCHANGED <<pc, arg, stack, tree, doc, pos, runs, err, listed, before, outs, overlap, last>>

Init ==
  /\ fs = <<>>
  /\ made = 0
  /\ pc = [p \in Procs |-> "idle"]
  /\ arg = [p \in Procs |-> root]
  /\ stack = [p \in Procs |-> <<>>]
  /\ tree = [p \in Procs |-> <<>>]
  /\ doc = [p \in Procs |-> <<>>]
  /\ pos = [p \in Procs |-> 0]
  /\ runs = [p \in Procs |-> 0]
  /\ err = [p \in Procs |-> "none"]
  /\ listed = [p \in Procs |-> <<>>]
  /\ before = [p \in Procs |-> <<>>]
  /\ outs = [p \in Procs |-> <<>>]
  /\ overlap = FALSE
  /\ last = 0

Step(p) ==
  \/ Enter(p)
  \/ EnterFail(p)
  \/ Iter(p)
  \/ Return(p)
  \/ Open(p)
  \/ OpenFail(p)
  \/ Write(p)
  \/ Close(p)

Env(limit, choices) ==
  \E parent \in DOMAIN fs \cup {root} : \E c \in choices : Create(parent, c, limit)

\* the library is set up, then one process runs the script, run after run
Next ==
  \/ (runs[1] = 0 /\ Env(MaxNodes, Creatable))
  \/ Start(1, MaxRuns)
  \/ Step(1)

Spec == Init /\ [][Next]_vars

\* the library is set up, then the script is run once
NextOnce ==
  \/ (runs[1] = 0 /\ Env(MaxNodes, Creatable))
  \/ Start(1, 1)
  \/ Step(1)

\* the interpreter always takes its next step
SpecFair == Init /\ [][NextOnce]_vars /\ WF_vars(Step(1))

\* two processes, one run each
NextConc ==
  \/ Env(MaxNodesConc, CreatableConc)
  \/ \E p \in Procs : Start(p, 1)
  \/ \E p \in Procs : Step(p)

SpecConc == Init /\ [][NextConc]_vars


(***************************************************************************)
(* What the claims speak of.                                               *)
(***************************************************************************)
\* build_scad_tree(root) has returned to line 18 in process p
Finished(p) == pc[p] \in {"open", "write", "done"}

IsFileEntry(e) == e.py = "str"

IsDirEntry(e) ==
  /\ e.py = "list"
  /\ Len(e.v) = 2
  /\ e.v[1].py = "str"
  /\ e.v[2].py = "list"

EntryName(e) == IF e.py = "str" THEN e.v ELSE e.v[1].v

Children(e) == e.v[2].v

\* the name ends in '.scad', written out
IsScadName(n) ==
  /\ Len(n) >= 5
  /\ n[Len(n) - 4] = 46
  /\ n[Len(n) - 3] = 115
  /\ n[Len(n) - 2] = 99
  /\ n[Len(n) - 1] = 97
  /\ n[Len(n)] = 100

\* a comes before b in code point order
RECURSIVE Before(_, _)
Before(a, b) ==
  IF b = <<>> THEN FALSE
  ELSE IF a = <<>> THEN TRUE
  ELSE IF Head(a) # Head(b) THEN Head(a) < Head(b)
  ELSE Before(Tail(a), Tail(b))

\* the names of a level, in the order of the entries
NamesOf(entries) == [k \in 1..Len(entries) |-> EntryName(entries[k])]

\* the entries of all nesting levels
RECURSIVE CountEntries(_)
CountEntries(entries) ==
  IF entries = <<>> THEN 0
  ELSE (IF IsDirEntry(Head(entries)) THEN 1 + CountEntries(Children(Head(entries))) ELSE 1)
       + CountEntries(Tail(entries))

\* the tree holds files and directories only, no symbolic link
PlainTree == \A q \in DOMAIN fs : fs[q].kind \in {"dir", "file", "fifo"}

\* the files, regular or not, named *.scad
ScadFiles == { q \in DOMAIN fs : fs[q].kind \in {"file", "fifo"} /\ IsScadName(Base(q)) }

Directories == { q \in DOMAIN fs : fs[q].kind = "dir" }

\* C1: on a tree of files and directories only (no symbolic link), the
\* entries of build_tree(root) over all nesting levels number the .scad
\* files plus the directories under the root.
C1_EntryCount ==
  (Finished(1) /\ PlainTree) =>
     CountEntries(tree[1]) = Cardinality(ScadFiles) + Cardinality(Directories)

\* a directory holding a .scad file beside a file that is left out
C1_Witness ==
  /\ Finished(1)
  /\ PlainTree
  /\ <<nA, n_a_scad>> \in ScadFiles
  /\ fs[<<nA, n_a_scad>>].kind = "file"
  /\ <<n_model_SCAD>> \in DOMAIN fs
  /\ CountEntries(tree[1]) = 2

\* every File entry names a regular file whose name ends in '.scad'
RECURSIVE OnlyRegularScad(_, _)
OnlyRegularScad(entries, path) ==
  \A k \in 1..Len(entries) :
     LET e == entries[k] IN
     IF IsFileEntry(e)
     THEN /\ IsScadName(e.v)
          /\ Resolve(Append(path, e.v)).ok
          /\ fs[Resolve(Append(path, e.v)).real].kind = "file"
     ELSE OnlyRegularScad(Children(e), Append(path, EntryName(e)))

\* C2: only regular files whose name ends in the case-sensitive '.scad'
\* appear as File entries; every other entry that is no directory, a
\* non-regular file included, is left out.
C2_OnlyRegularFiles == Finished(1) => OnlyRegularScad(tree[1], root)

\* every level in strictly ascending code point order
RECURSIVE Ascending(_)
Ascending(entries) ==
  /\ \A k \in 1..(Len(entries) - 1) :
        Before(EntryName(entries[k]), EntryName(entries[k + 1]))
  /\ \A k \in 1..Len(entries) :
        IsDirEntry(entries[k]) => Ascending(Children(entries[k]))

\* C3: at every level the entries, files and directories together, are in
\* strictly ascending case-sensitive code point order of their names; the
\* siblings a.scad, A, B.scad come out as A, B.scad, a.scad.
C3_Ordering ==
  Finished(1) =>
     /\ Ascending(tree[1])
     /\ ListDir(root) \ {n_catalog_json} = {n_a_scad, nA, n_B_scad}
           => NamesOf(tree[1]) = <<nA, n_B_scad, n_a_scad>>

\* the siblings of the example: a file that sorts after two directories,
\* the upper-case names first
C3_Witness ==
  /\ Finished(1)
  /\ NamesOf(tree[1]) = <<nA, n_B_scad, n_a_scad>>
  /\ IsDirEntry(tree[1][2])
  /\ IsFileEntry(tree[1][3])

\* the directory with real path q is shown as a Directory entry, with no
\* children when hollow
RECURSIVE ShowsDir(_, _, _)
ShowsDir(entries, q, hollow) ==
  \E k \in 1..Len(entries) :
     /\ IsDirEntry(entries[k])
     /\ EntryName(entries[k]) = Head(q)
     /\ IF Len(q) = 1
        THEN hollow => Children(entries[k]) = <<>>
        ELSE ShowsDir(Children(entries[k]), Tail(q), hollow)

\* nothing in the directory q
Hollow(q) == \A x \in DOMAIN fs : Len(x) = 0 \/ Parent(x) # q

RECURSIVE Mirrors(_, _)
Mirrors(entries, path) ==
  LET kept == { n \in ListDir(path) : IsDir(Append(path, n)) \/ IsScadName(n) } IN
  /\ Len(entries) = Cardinality(kept)
  /\ { EntryName(entries[k]) : k \in 1..Len(entries) } = kept
  /\ \A k \in 1..Len(entries) :
        LET e == entries[k] IN
        /\ IsFileEntry(e) \/ IsDirEntry(e)
        /\ IsFileEntry(e) <=> ~IsDir(Append(path, EntryName(e)))
        /\ IsDirEntry(e) =>
              /\ Mirrors(Children(e), Append(path, EntryName(e)))
              /\ Children(e) = build_scad_tree(Append(path, EntryName(e)))

\* C5: the result mirrors the hierarchy: every element is a plain string,
\* the base name of a file, or a pair [dirname, children] with children the
\* result for that subdirectory, at every depth; A/B.scad/a.scad yields
\* [["A", [["B.scad", ["a.scad"]]]]].
C5_Mirrors ==
  Finished(1) =>
     /\ Mirrors(tree[1], root)
     /\ tree[1] = build_scad_tree(root)
     /\ DOMAIN fs \ {output_path} = {<<nA>>, <<nA, n_B_scad>>, <<nA, n_B_scad, n_a_scad>>}
           => tree[1] = <<DirEntry(nA, <<DirEntry(n_B_scad, <<Str(n_a_scad)>>)>>)>>

\* the nesting of the example, three levels deep
C5_Witness ==
  /\ Finished(1)
  /\ DOMAIN fs \ {output_path} = {<<nA>>, <<nA, n_B_scad>>, <<nA, n_B_scad, n_a_scad>>}
  /\ fs[<<nA, n_B_scad, n_a_scad>>].kind = "file"

\* C6: runs in sequence on a file system nothing else changes write the
\* same bytes to catalog.json, and the catalog.json an earlier run wrote is
\* no entry of a later run's result.
C6_Idempotent ==
  /\ \A i, j \in 1..Len(outs[1]) : outs[1][i] = outs[1][j]
  /\ Finished(1) => \A k \in 1..Len(tree[1]) : EntryName(tree[1][k]) # n_catalog_json

\* two complete runs, the first of which created catalog.json beside three
\* other entries
C6_Witness ==
  /\ Len(outs[1]) = 2
  /\ pc[1] = "done"
  /\ made = 3
  /\ Cardinality(DOMAIN fs) = 4
  /\ Len(outs[1][2]) > 2

\* C7: when a directory reached by the walk cannot be listed the run ends
\* there with the error, returns no result and leaves the file system, and
\* so catalog.json, as it found it.
C7_AbortsWhole ==
  err[1] = "listdir" =>
     /\ pc[1] = "failed"
     /\ stack[1] = <<>>
     /\ tree[1] = <<>>
     /\ doc[1] = <<>>
     /\ fs = before[1]

\* the listing of a subdirectory fails after the root was listed, with an
\* older catalog.json in place
C7_Witness ==
  /\ err[1] = "listdir"
  /\ Len(listed[1]) >= 1
  /\ output_path \in DOMAIN fs
  /\ fs[output_path].data = Stale

\* C8: the walk changes nothing, and a complete run changes exactly
\* <root>/catalog.json, which then holds the serialisation of the walk's result.
C8_Frame ==
  /\ pc[1] \in {"enter", "loop", "open"} => fs = before[1]
  /\ pc[1] = "done" =>
        fs = (output_path :> [kind |-> "file", data |-> Dumps(List(tree[1]), 0)])
               @@ before[1]

\* a complete run that overwrote a longer catalog.json in a tree with other files
C8_Witness ==
  /\ pc[1] = "done"
  /\ output_path \in DOMAIN before[1]
  /\ Len(before[1][output_path].data) > Len(fs[output_path].data)
  /\ \E q \in DOMAIN before[1] : q # output_path /\ before[1][q].kind = "file"

BothDone == pc[1] = "done" /\ pc[2] = "done"

\* C9, as claimed: after two simultaneous runs catalog.json holds the
\* complete output of one of them, never a mixture.
C9_LastWriterWins ==
  BothDone => (fs[output_path].data = doc[1] \/ fs[output_path].data = doc[2])

\* C9, amended: it holds the complete output of the run that closed last when
\* the two outputs are equal or neither run opened the file while the other
\* had it open; in any case each of its bytes is the byte one of the outputs
\* has at that offset, or the NUL of a gap.
C9_Amended ==
  BothDone =>
     /\ (doc[1] = doc[2] \/ ~overlap) => fs[output_path].data = doc[last]
     /\ \A k \in 1..Len(fs[output_path].data) :
           \/ fs[output_path].data[k] = 0
           \/ \E p \in Procs : k <= Len(doc[p]) /\ fs[output_path].data[k] = doc[p][k]

\* both runs had the file open at once and wrote the same output in more
\* than one write
C9_Witness ==
  /\ BothDone
  /\ overlap
  /\ doc[1] = doc[2]
  /\ Len(doc[1]) > BufSize

\* nothing is listed twice
ListedOnce(p) ==
  \A i, j \in 1..Len(listed[p]) : listed[p][i] = listed[p][j] => i = j

\* what was listed is the root and, below a listed path, exactly the
\* entries the operating system takes for directories
ListedAll(p) ==
  LET L == { listed[p][i] : i \in 1..Len(listed[p]) } IN
  /\ root \in L
  /\ \A q \in L : \A n \in ListDir(q) : IsDir(Append(q, n)) => Append(q, n) \in L
  /\ \A q \in L : q = root \/ (Parent(q) \in L /\ IsDir(q))

\* a symbolic link to the directory that holds it
LinkCycle == \E q \in DOMAIN fs : fs[q].kind = "link"

\* C10, as claimed (the part a state refutes): without a link cycle every
\* directory is listed exactly once; with one the run never completes normally.
C10_AsClaimed ==
  /\ ~LinkCycle => (ListedOnce(1) /\ (Finished(1) => ListedAll(1)))
  /\ LinkCycle => ~Finished(1)

\* C10, amended: on every finite tree, link cycles or none, the walk ends,
\* by returning or by failing outright, having listed every path the operating
\* system takes for a directory exactly once; a cycle of links is followed
\* only as far as the operating system resolves the path.
C10_Amended ==
  /\ [](ListedOnce(1) /\ (Finished(1) => ListedAll(1)))
  /\ (pc[1] \in {"enter", "loop"}) ~> (Finished(1) \/ pc[1] = "failed")

\* a walk through a link cycle that returned: the link was followed
\* SymloopMax times
C10_Witness ==
  /\ Finished(1)
  /\ LinkCycle
  /\ Len(listed[1]) > SymloopMax
  /\ \E i \in 1..Len(listed[1]) : Len(listed[1][i]) = SymloopMax + 1

=============================================================================
